---- MODULE Spec2Model ----
(***************************************************************************)
(* Model of package validator (src/validator/validation.go): the           *)
(* Validation context, its error list, the chainable ValidationResult and  *)
(* the apply / Check dispatch.                                             *)
(*                                                                         *)
(* Go strings are sequences of tokens (a token is a TLA+ string); string   *)
(* concatenation is \o.  Numbers are rendered digit by digit; strings      *)
(* supplied by the application hold no digit tokens.                       *)
(* Pointers to ValidationError are indices into heap; NULL is nil.         *)
(*                                                                         *)
(* Two history variables follow the session: failures counts the apply     *)
(* invocations since the last Clear (or since creation) whose rule was not *)
(* satisfied, cleared is the number of ValidationError records that        *)
(* existed at the last Clear.                                              *)
(***************************************************************************)
EXTENDS Integers, Sequences, FiniteSets, TLC

VARIABLES Errors, heap, keep, last, failures, cleared

vars == <<Errors, heap, keep, last, failures, cleared>>

(* ------------------------------- bounds -------------------------------- *)

\* ValidationError records allocated in one session.
MaxAlloc == 2
\* Largest integer under test.
MaxInt == 2
\* Largest limit of a rule.
MaxLimit == 1
\* Largest limit of the Range calls of SpecRange.
MaxRangeLimit == 2
\* Longest rule list handed to Check.
MaxChecks == 2

(* ------------------------------- values -------------------------------- *)

NULL == 0

\* An interface{} value: t is the dynamic type, n the integer, s the string
\* (a token sequence), e the elements of a []interface{}.
NilVal == [t |-> "nil", n |-> 0, s |-> <<>>, e |-> <<>>]
IntVal(n) == [t |-> "int", n |-> n, s |-> <<>>, e |-> <<>>]
StrVal(s) == [t |-> "string", n |-> 0, s |-> s, e |-> <<>>]
SliceVal(e) == [t |-> "slice", n |-> 0, s |-> <<>>, e |-> e]

Digits == <<"0", "1", "2", "3", "4", "5", "6", "7", "8", "9">>

\* strconv.Itoa for n >= 0: decimal digits, most significant first.
RECURSIVE Itoa(_)
Itoa(n) == IF n < 10 THEN <<Digits[n + 1]>>
           ELSE Itoa(n \div 10) \o <<Digits[(n % 10) + 1]>>

(* ----------------------------- fmt.Sprintf ----------------------------- *)

\* The %v rendering of an operand.
RECURSIVE FmtValue(_)
RECURSIVE FmtElems(_, _)
FmtElems(e, i) == IF i > Len(e) THEN <<>>
                  ELSE (IF i > 1 THEN <<" ">> ELSE <<>>) \o FmtValue(e[i]) \o FmtElems(e, i + 1)
FmtValue(v) == CASE v.t = "nil" -> <<"<nil>">>
                 [] v.t = "int" -> Itoa(v.n)
                 [] v.t = "string" -> v.s
                 [] v.t = "slice" -> <<"[">> \o FmtElems(v.e, 1) \o <<"]">>

\* The %T name of an operand's dynamic type.
FmtType(v) == CASE v.t = "int" -> <<"int">>
                [] v.t = "string" -> <<"string">>
                [] v.t = "slice" -> <<"[]interface {}">>
                [] v.t = "nil" -> <<"<nil>">>

\* The operands no verb consumed: %!(EXTRA type=value, ...).
RECURSIVE FmtExtra(_, _, _)
FmtExtra(a, from, i) ==
    IF i > Len(a) THEN <<")">>
    ELSE (IF i > from THEN <<", ">> ELSE <<>>)
         \o (IF a[i].t = "nil" THEN <<"<nil>">>
             ELSE FmtType(a[i]) \o <<"=">> \o FmtValue(a[i]))
         \o FmtExtra(a, from, i + 1)

\* The token "%v" of a format is a verb, every other token is literal text.
RECURSIVE FmtScan(_, _, _, _)
FmtScan(format, a, i, argNum) ==
    IF i > Len(format)
    THEN IF argNum <= Len(a) THEN <<"%!(EXTRA ">> \o FmtExtra(a, argNum, argNum) ELSE <<>>
    ELSE IF format[i] = "%v"
         THEN IF argNum > Len(a)
              THEN <<"%!v(MISSING)">> \o FmtScan(format, a, i + 1, argNum)
              ELSE FmtValue(a[argNum]) \o FmtScan(format, a, i + 1, argNum + 1)
         ELSE <<format[i]>> \o FmtScan(format, a, i + 1, argNum)

\* fmt.Sprintf(format, a...) with the operand list a.
Sprintf(format, a) == FmtScan(format, a, 1, 1)

(* ------------------------- Validator capability ------------------------ *)

\* A rule value: kind names the variant, min / max its limits, pat its pattern.
RuleRequired == [kind |-> "Required", min |-> 0, max |-> 0, pat |-> ""]
RuleMin(m) == [kind |-> "Min", min |-> m, max |-> 0, pat |-> ""]
RuleMax(m) == [kind |-> "Max", min |-> 0, max |-> m, pat |-> ""]
RuleRange(lo, hi) == [kind |-> "Range", min |-> lo, max |-> hi, pat |-> ""]
RuleMinSize(m) == [kind |-> "MinSize", min |-> m, max |-> 0, pat |-> ""]
RuleMaxSize(m) == [kind |-> "MaxSize", min |-> 0, max |-> m, pat |-> ""]
RuleLength(n) == [kind |-> "Length", min |-> n, max |-> n, pat |-> ""]
RuleMatch(p) == [kind |-> "Match", min |-> 0, max |-> 0, pat |-> p]
RuleEmail == [kind |-> "Email", min |-> 0, max |-> 0, pat |-> "email"]

\* A pattern is the built-in "email" (text, "@", text) or a token that has to
\* occur in the string.
MatchString(p, s) ==
    IF p = "email"
    THEN \E i \in 1..Len(s) : s[i] = "@" /\ 1 < i /\ i < Len(s)
    ELSE \E i \in 1..Len(s) : s[i] = p

HasSize(v) == v.t \in {"string", "slice"}
Size(v) == IF v.t = "string" THEN Len(v.s) ELSE Len(v.e)

\* A value of the wrong dynamic type does not satisfy a rule.
RECURSIVE IsSatisfied(_, _)
IsSatisfied(chk, obj) ==
    CASE chk.kind = "Required" -> obj.t # "nil" /\ (HasSize(obj) => Size(obj) > 0)
      [] chk.kind = "Min" -> obj.t = "int" /\ obj.n >= chk.min
      [] chk.kind = "Max" -> obj.t = "int" /\ obj.n <= chk.max
      [] chk.kind = "Range" -> IsSatisfied(RuleMin(chk.min), obj)
                               /\ IsSatisfied(RuleMax(chk.max), obj)
      [] chk.kind = "MinSize" -> HasSize(obj) /\ Size(obj) >= chk.min
      [] chk.kind = "MaxSize" -> HasSize(obj) /\ Size(obj) <= chk.max
      [] chk.kind = "Length" -> HasSize(obj) /\ Size(obj) = chk.min
      [] chk.kind = "Match" -> obj.t = "string" /\ MatchString(chk.pat, obj.s)
      [] chk.kind = "Email" -> obj.t = "string" /\ MatchString(chk.pat, obj.s)

\* DefaultMessage() has no parameter: the text is fixed by the rule alone.
DefaultMessage(chk) ==
    CASE chk.kind = "Required" -> <<"Required">>
      [] chk.kind = "Min" -> <<"Minimum is ">> \o Itoa(chk.min)
      [] chk.kind = "Max" -> <<"Maximum is ">> \o Itoa(chk.max)
      [] chk.kind = "Range" -> <<"Range is ">> \o Itoa(chk.min) \o <<" to ">> \o Itoa(chk.max)
      [] chk.kind = "MinSize" -> <<"Minimum size is ">> \o Itoa(chk.min)
      [] chk.kind = "MaxSize" -> <<"Maximum size is ">> \o Itoa(chk.max)
      [] chk.kind = "Length" -> <<"Required length is ">> \o Itoa(chk.min)
      [] chk.kind = "Match" -> <<"Must match ">> \o <<chk.pat>>
      [] chk.kind = "Email" -> <<"Must be a valid email address">>

(* ----------------------------- input domains --------------------------- *)

Ints == 0..MaxInt
Limits == 1..MaxLimit
Strs == {<<>>, <<"a">>, <<"a", "@", "b">>}
Objs == {NilVal} \cup {IntVal(n) : n \in Ints} \cup {StrVal(s) : s \in Strs}
Patterns == {"a"}

\* The rules a Check call is given.
CheckRules == {RuleRequired} \cup {RuleMin(m) : m \in Limits} \cup {RuleMax(m) : m \in Limits}
CheckObjs == {NilVal} \cup {IntVal(n) : n \in Ints}
CheckLists == UNION {[1..k -> CheckRules] : k \in 0..MaxChecks}

UserKeys == {<<"name">>}
WideKeys == {<<"name">>, <<"age">>}
UserFormats == {<<"bad ", "%v">>}
UserArgs == {<<>>, <<IntVal(1)>>}

(* ------------------------------ call stack ----------------------------- *)

\* A frame is a function and the line it is executing.
Frame(fn, line) == [fn |-> <<fn>>, line |-> line]
ApplyFrame == Frame("golanger.com/framework/validator.(*Validation).apply", 131)
OuterFrame == Frame("main.main", 3)
\* The application code that calls the validation methods.
Sites == {Frame("app.Save", 12)}
\* The frame of a method of *Validation at the line where it calls apply.
Method(name, line) == Frame("golanger.com/framework/validator.(*Validation)." \o name, line)
\* Innermost frame first.
Stack(method, site) == <<ApplyFrame, method, site, OuterFrame>>

\* runtime.Caller(skip): skip = 0 is the function calling Caller. avail is
\* whether the runtime can supply the information.
Caller(stack, skip, avail) ==
    IF avail /\ skip + 1 <= Len(stack)
    THEN [ok |-> TRUE, fn |-> stack[skip + 1].fn, line |-> stack[skip + 1].line]
    ELSE [ok |-> FALSE, fn |-> <<>>, line |-> 0]

(* --------------------------- ValidationResult -------------------------- *)

\* A *ValidationResult; its fields are never assigned after construction,
\* so the pointer is modelled by the value it points to. nil marks the nil
\* pointer.
NilResult == [nil |-> TRUE, Ok |-> FALSE, Error |-> NULL]
Result(ok, err) == [nil |-> FALSE, Ok |-> ok, Error |-> err]

\* Faulty variant: Key gives a success result an error record of its own.
ResultKey_CreatesError(hp, r, key) ==
    IF r.Error # NULL THEN [hp EXCEPT ![r.Error].Key = key]
    ELSE Append(hp, [Message |-> <<>>, Key |-> key])

\* Faulty variant: Key writes to a copy of the error, not to the record itself.
ResultKey_OnCopy(hp, r, key) == hp

\* r.Key(key): the heap after the call.
\* Faulty variant: the key goes to the error allocated last.
ResultKey_LatestError(hp, r, key) ==
    IF r.Error # NULL THEN [hp EXCEPT ![Len(hp)].Key = key] ELSE hp

ResultKey(hp, r, key) ==
    IF r.Error # NULL THEN [hp EXCEPT ![r.Error].Key = key] ELSE hp

\* Faulty variant: setting the message also resets the key.
ResultMessage_ResetsKey(hp, r, message, args) ==
    IF r.Error # NULL
    THEN IF Len(args) = 0
         THEN [hp EXCEPT ![r.Error] = [Message |-> message, Key |-> <<>>]]
         ELSE [hp EXCEPT ![r.Error] = [Message |-> Sprintf(message, <<SliceVal(args)>>),
                                       Key |-> <<>>]]
    ELSE hp

\* r.Message(message, args...): the heap after the call.
ResultMessage(hp, r, message, args) ==
    IF r.Error # NULL
    THEN IF Len(args) = 0
         THEN [hp EXCEPT ![r.Error].Message = message]
         ELSE [hp EXCEPT ![r.Error].Message = Sprintf(message, <<SliceVal(args)>>)]
    ELSE hp

(* ------------------------------ Validation ----------------------------- *)

HasErrorsOf(Errs) == Len(Errs) > 0

\* Faulty variant: a later error with the same key replaces the earlier one.
RECURSIVE ErrorMapLoop_LastWins(_, _, _, _)
ErrorMapLoop_LastWins(Errs, hp, i, m) ==
    IF i > Len(Errs) THEN m
    ELSE LET e == Errs[i]
             k == hp[e].Key
         IN ErrorMapLoop_LastWins(Errs, hp, i + 1,
                [x \in DOMAIN m \cup {k} |-> IF x = k THEN e ELSE m[x]])

\* The loop of ErrorMap over Errors[i..], m the map built so far.
RECURSIVE ErrorMapLoop(_, _, _, _)
ErrorMapLoop(Errs, hp, i, m) ==
    IF i > Len(Errs) THEN m
    ELSE LET e == Errs[i]
             k == hp[e].Key
         IN ErrorMapLoop(Errs, hp, i + 1,
                IF k \in DOMAIN m THEN m
                ELSE [x \in DOMAIN m \cup {k} |-> IF x = k THEN e ELSE m[x]])

EmptyMap == [x \in {} |-> NULL]
ErrorMapOf(Errs, hp) == ErrorMapLoop(Errs, hp, 1, EmptyMap)

\* Faulty variant: the key is taken from the frame that called apply.
apply_CallerOfApply(Errs, hp, chk, obj, stack, avail) ==
    IF IsSatisfied(chk, obj)
    THEN [Errors |-> Errs, heap |-> hp, result |-> Result(TRUE, NULL),
          evaluated |-> <<chk>>, logged |-> FALSE]
    ELSE LET c == Caller(stack, 1, avail)
             key == IF c.ok THEN c.fn \o <<"#">> \o Itoa(c.line) ELSE <<>>
             err == [Message |-> DefaultMessage(chk), Key |-> key]
             id == Len(hp) + 1
         IN [Errors |-> Append(Errs, id), heap |-> Append(hp, err),
             result |-> Result(FALSE, id),
             evaluated |-> <<chk>>, logged |-> ~c.ok]

\* Faulty variant: without caller information apply logs and returns a
\* failure that carries no error.
apply_GivesUp(Errs, hp, chk, obj, stack, avail) ==
    IF IsSatisfied(chk, obj)
    THEN [Errors |-> Errs, heap |-> hp, result |-> Result(TRUE, NULL),
          evaluated |-> <<chk>>, logged |-> FALSE]
    ELSE LET c == Caller(stack, 2, avail)
             key == IF c.ok THEN c.fn \o <<"#">> \o Itoa(c.line) ELSE <<>>
             err == [Message |-> DefaultMessage(chk), Key |-> key]
             id == Len(hp) + 1
         IN IF ~c.ok
            THEN [Errors |-> Errs, heap |-> hp, result |-> Result(FALSE, NULL),
                  evaluated |-> <<chk>>, logged |-> TRUE]
            ELSE [Errors |-> Append(Errs, id), heap |-> Append(hp, err),
                  result |-> Result(FALSE, id),
                  evaluated |-> <<chk>>, logged |-> FALSE]

\* Faulty variant: the new error is appended twice.
apply_AppendTwice(Errs, hp, chk, obj, stack, avail) ==
    IF IsSatisfied(chk, obj)
    THEN [Errors |-> Errs, heap |-> hp, result |-> Result(TRUE, NULL),
          evaluated |-> <<chk>>, logged |-> FALSE]
    ELSE LET c == Caller(stack, 2, avail)
             key == IF c.ok THEN c.fn \o <<"#">> \o Itoa(c.line) ELSE <<>>
             err == [Message |-> DefaultMessage(chk), Key |-> key]
             id == Len(hp) + 1
         IN [Errors |-> Errs \o <<id, id>>, heap |-> Append(hp, err),
             result |-> Result(FALSE, id),
             evaluated |-> <<chk>>, logged |-> ~c.ok]

\* Faulty variant: the new error is put in front of the others.
apply_Prepend(Errs, hp, chk, obj, stack, avail) ==
    IF IsSatisfied(chk, obj)
    THEN [Errors |-> Errs, heap |-> hp, result |-> Result(TRUE, NULL),
          evaluated |-> <<chk>>, logged |-> FALSE]
    ELSE LET c == Caller(stack, 2, avail)
             key == IF c.ok THEN c.fn \o <<"#">> \o Itoa(c.line) ELSE <<>>
             err == [Message |-> DefaultMessage(chk), Key |-> key]
             id == Len(hp) + 1
         IN [Errors |-> <<id>> \o Errs, heap |-> Append(hp, err),
             result |-> Result(FALSE, id),
             evaluated |-> <<chk>>, logged |-> ~c.ok]

\* Faulty variant: the error is built and returned but never appended.
apply_NoAppend(Errs, hp, chk, obj, stack, avail) ==
    IF IsSatisfied(chk, obj)
    THEN [Errors |-> Errs, heap |-> hp, result |-> Result(TRUE, NULL),
          evaluated |-> <<chk>>, logged |-> FALSE]
    ELSE LET c == Caller(stack, 2, avail)
             key == IF c.ok THEN c.fn \o <<"#">> \o Itoa(c.line) ELSE <<>>
             err == [Message |-> DefaultMessage(chk), Key |-> key]
             id == Len(hp) + 1
         IN [Errors |-> Errs, heap |-> Append(hp, err),
             result |-> Result(FALSE, id),
             evaluated |-> <<chk>>, logged |-> ~c.ok]

\* Faulty variant: the error is appended before the rule is consulted.
apply_AppendFirst(Errs, hp, chk, obj, stack, avail) ==
    LET c == Caller(stack, 2, avail)
        key == IF c.ok THEN c.fn \o <<"#">> \o Itoa(c.line) ELSE <<>>
        err == [Message |-> DefaultMessage(chk), Key |-> key]
        id == Len(hp) + 1
    IN IF IsSatisfied(chk, obj)
       THEN [Errors |-> Append(Errs, id), heap |-> Append(hp, err),
             result |-> Result(TRUE, NULL),
             evaluated |-> <<chk>>, logged |-> ~c.ok]
       ELSE [Errors |-> Append(Errs, id), heap |-> Append(hp, err),
             result |-> Result(FALSE, id),
             evaluated |-> <<chk>>, logged |-> ~c.ok]

\* v.apply(chk, obj) on the error list Errs and heap hp, called with the
\* given stack: the list, heap and result afterwards; evaluated lists the
\* rules whose IsSatisfied ran, logged is whether log.Info was called.
apply(Errs, hp, chk, obj, stack, avail) ==
    IF IsSatisfied(chk, obj)
    THEN [Errors |-> Errs, heap |-> hp, result |-> Result(TRUE, NULL),
          evaluated |-> <<chk>>, logged |-> FALSE]
    ELSE LET c == Caller(stack, 2, avail)
             key == IF c.ok THEN c.fn \o <<"#">> \o Itoa(c.line) ELSE <<>>
             err == [Message |-> DefaultMessage(chk), Key |-> key]
             id == Len(hp) + 1
         IN [Errors |-> Append(Errs, id), heap |-> Append(hp, err),
             result |-> Result(FALSE, id),
             evaluated |-> <<chk>>, logged |-> ~c.ok]

RECURSIVE CheckLoop(_, _, _, _, _, _)

\* Faulty variant: the loop goes on after a rule has failed.
RECURSIVE CheckLoop_NoShortCircuit(_, _, _, _, _, _)
CheckLoop_NoShortCircuit(acc, obj, checks, i, stack, avail) ==
    IF i > Len(checks) THEN acc
    ELSE LET out == apply(acc.Errors, acc.heap, checks[i], obj, stack, avail)
             nxt == [out EXCEPT !.evaluated = acc.evaluated \o out.evaluated,
                                !.logged = acc.logged \/ out.logged]
         IN CheckLoop_NoShortCircuit(nxt, obj, checks, i + 1, stack, avail)

\* The loop of Check from checks[i] on; acc is the state after the rules
\* before i (result is the variable of that name).
CheckLoop(acc, obj, checks, i, stack, avail) ==
    IF i > Len(checks) THEN acc
    ELSE LET out == apply(acc.Errors, acc.heap, checks[i], obj, stack, avail)
             nxt == [out EXCEPT !.evaluated = acc.evaluated \o out.evaluated,
                                !.logged = acc.logged \/ out.logged]
         IN IF ~nxt.result.Ok THEN nxt
            ELSE CheckLoop(nxt, obj, checks, i + 1, stack, avail)

\* Faulty variant: result starts as a success instead of nil.
CheckOf_StartsOk(Errs, hp, obj, checks, site, avail) ==
    CheckLoop([Errors |-> Errs, heap |-> hp, result |-> Result(TRUE, NULL),
               evaluated |-> <<>>, logged |-> FALSE],
              obj, checks, 1,
              Stack(Method("Check", 158), site), avail)

\* v.Check(obj, checks...).
CheckOf(Errs, hp, obj, checks, site, avail) ==
    CheckLoop([Errors |-> Errs, heap |-> hp, result |-> NilResult,
               evaluated |-> <<>>, logged |-> FALSE],
              obj, checks, 1,
              Stack(Method("Check", 158), site), avail)

(* ------------------------------- state --------------------------------- *)

\* last is the record of the call that has just returned: its inputs (params
\* are the limits a convenience method is given), the
\* state it started from, what apply evaluated and logged during it, and the
\* value it returned (ret a *ValidationResult, retMap a map, retBool a
\* bool). Between calls last is Idle.
Call(op) == [op |-> op, checks |-> <<>>, obj |-> NilVal, site |-> OuterFrame,
             avail |-> TRUE, r |-> NilResult, key |-> <<>>, msg |-> <<>>,
             args |-> <<>>, params |-> <<>>,
             Errors0 |-> Errors, heap0 |-> heap, keep0 |-> keep,
             evaluated |-> <<>>, logged |-> FALSE,
             ret |-> NilResult, retMap |-> EmptyMap, retBool |-> FALSE]

Idle == [op |-> "idle", checks |-> <<>>, obj |-> NilVal, site |-> OuterFrame,
         avail |-> TRUE, r |-> NilResult, key |-> <<>>, msg |-> <<>>,
         args |-> <<>>, params |-> <<>>,
         Errors0 |-> <<>>, heap0 |-> <<>>, keep0 |-> FALSE,
         evaluated |-> <<>>, logged |-> FALSE,
         ret |-> NilResult, retMap |-> EmptyMap, retBool |-> FALSE]

\* The results a caller can hold: a success result, and the failing result
\* that came with each ValidationError allocated so far.
Handles(hp) == {Result(TRUE, NULL)} \cup {Result(FALSE, id) : id \in 1..Len(hp)}

\* How many of the rules that were evaluated on obj it does not satisfy.
Unsatisfied(evaluated, obj) ==
    Cardinality({i \in 1..Len(evaluated) : ~IsSatisfied(evaluated[i], obj)})

\* A fresh Validation.
Init ==
    /\ Errors = <<>>
    /\ heap = <<>>
    /\ keep = FALSE
    /\ last = Idle
    /\ failures = 0
    /\ cleared = 0

\* The caller is ready for its next call.
Return ==
    /\ last # Idle
    /\ last' = Idle
    /\ UNCHANGED <<Errors, heap, keep, failures, cleared>>

Keep ==
    /\ last = Idle
    /\ keep' = TRUE
    /\ last' = Call("Keep")
    /\ UNCHANGED <<Errors, heap, failures, cleared>>

\* Faulty variant: Clear resets the flag and not the list.
Clear_ResetsKeep ==
    /\ last = Idle
    /\ keep' = FALSE
    /\ last' = Call("Clear")
    /\ failures' = 0
    /\ cleared' = Len(heap)
    /\ UNCHANGED <<Errors, heap>>

\* Faulty variant: Clear spares the errors once Keep has been called.
Clear_UnlessKept ==
    /\ last = Idle
    /\ Errors' = IF keep THEN Errors ELSE <<>>
    /\ last' = Call("Clear")
    /\ failures' = IF keep THEN failures ELSE 0
    /\ cleared' = IF keep THEN cleared ELSE Len(heap)
    /\ UNCHANGED <<heap, keep>>

Clear ==
    /\ last = Idle
    /\ Errors' = <<>>
    /\ last' = Call("Clear")
    /\ failures' = 0
    /\ cleared' = Len(heap)
    /\ UNCHANGED <<heap, keep>>

HasErrors ==
    /\ last = Idle
    /\ last' = [Call("HasErrors") EXCEPT !.retBool = HasErrorsOf(Errors)]
    /\ UNCHANGED <<Errors, heap, keep, failures, cleared>>

ErrorMap ==
    /\ last = Idle
    /\ last' = [Call("ErrorMap") EXCEPT !.retMap = ErrorMapOf(Errors, heap)]
    /\ UNCHANGED <<Errors, heap, keep, failures, cleared>>

\* v.Error(message, args...): a result over a fresh ValidationError{}, then
\* Message(message, args) with the slice args as its one variadic operand.
ErrorOf(Errs, hp, message, args) ==
    LET id == Len(hp) + 1
        r == Result(FALSE, id)
    IN [Errors |-> Errs,
        heap |-> ResultMessage(Append(hp, [Message |-> <<>>, Key |-> <<>>]), r,
                               message, <<SliceVal(args)>>),
        result |-> r]

Error ==
    \E message \in UserFormats, args \in UserArgs :
        LET out == ErrorOf(Errors, heap, message, args)
        IN /\ last = Idle
           /\ Len(out.heap) <= MaxAlloc
           /\ Errors' = out.Errors
           /\ heap' = out.heap
           /\ last' = [Call("Error") EXCEPT !.msg = message, !.args = args,
                                            !.ret = out.result]
           /\ UNCHANGED <<keep, failures, cleared>>

\* r.Key(key) on a result the caller holds.
KeyOver(K) ==
    \E r \in Handles(heap), key \in K :
        /\ last = Idle
        /\ heap' = ResultKey(heap, r, key)
        /\ last' = [Call("Key") EXCEPT !.r = r, !.key = key, !.ret = r]
        /\ UNCHANGED <<Errors, keep, failures, cleared>>

Key == KeyOver(UserKeys)

\* r.Message(message, args...) on a result the caller holds.
Message ==
    \E r \in Handles(heap), message \in UserFormats, args \in UserArgs :
        /\ last = Idle
        /\ heap' = ResultMessage(heap, r, message, args)
        /\ last' = [Call("Message") EXCEPT !.r = r, !.msg = message, !.args = args,
                                              !.ret = r]
        /\ UNCHANGED <<Errors, keep, failures, cleared>>

\* A convenience method: return v.apply(chk, obj), called from site.
Convenience(op, line, params, chk, obj, site, avail) ==
    LET out == apply(Errors, heap, chk, obj, Stack(Method(op, line), site), avail)
    IN /\ last = Idle
       /\ Len(out.heap) <= MaxAlloc
       /\ Errors' = out.Errors
       /\ heap' = out.heap
       /\ last' = [Call(op) EXCEPT !.checks = <<chk>>, !.obj = obj, !.site = site,
                                   !.params = params, !.avail = avail, !.evaluated = out.evaluated,
                                   !.logged = out.logged, !.ret = out.result]
       /\ failures' = failures + Unsatisfied(out.evaluated, obj)
       /\ UNCHANGED <<keep, cleared>>

Required ==
    \E obj \in Objs, site \in Sites, avail \in BOOLEAN :
        Convenience("Required", 89, <<>>, RuleRequired, obj, site, avail)

Min ==
    \E n \in Ints, min \in Limits, site \in Sites, avail \in BOOLEAN :
        Convenience("Min", 93, <<min>>, RuleMin(min), IntVal(n), site, avail)

Max ==
    \E n \in Ints, max \in Limits, site \in Sites, avail \in BOOLEAN :
        Convenience("Max", 97, <<max>>, RuleMax(max), IntVal(n), site, avail)

\* Faulty variant: only the upper limit is tested.
RangeOver_MaxOnly(L) ==
    \E n \in Ints, min \in L, max \in L, site \in Sites, avail \in BOOLEAN :
        Convenience("Range", 101, <<min, max>>, RuleMax(max), IntVal(n), site, avail)

\* v.Range(n, min, max) with the limits drawn from L.
RangeOver(L) ==
    \E n \in Ints, min \in L, max \in L, site \in Sites, avail \in BOOLEAN :
        Convenience("Range", 101, <<min, max>>, RuleRange(min, max), IntVal(n), site, avail)

Range == RangeOver(Limits)

MinSize ==
    \E obj \in Objs, min \in Limits, site \in Sites, avail \in BOOLEAN :
        Convenience("MinSize", 105, <<min>>, RuleMinSize(min), obj, site, avail)

MaxSize ==
    \E obj \in Objs, max \in Limits, site \in Sites, avail \in BOOLEAN :
        Convenience("MaxSize", 109, <<max>>, RuleMaxSize(max), obj, site, avail)

Length ==
    \E obj \in Objs, n \in Limits, site \in Sites, avail \in BOOLEAN :
        Convenience("Length", 113, <<n>>, RuleLength(n), obj, site, avail)

Match ==
    \E str \in Strs, regex \in Patterns, site \in Sites, avail \in BOOLEAN :
        Convenience("Match", 117, <<>>, RuleMatch(regex), StrVal(str), site, avail)

Email ==
    \E str \in Strs, site \in Sites, avail \in BOOLEAN :
        Convenience("Email", 121, <<>>, RuleEmail, StrVal(str), site, avail)

Check ==
    \E obj \in CheckObjs, checks \in CheckLists, site \in Sites, avail \in BOOLEAN :
        LET out == CheckOf(Errors, heap, obj, checks, site, avail)
        IN /\ last = Idle
           /\ Len(out.heap) <= MaxAlloc
           /\ Errors' = out.Errors
           /\ heap' = out.heap
           /\ last' = [Call("Check") EXCEPT !.checks = checks, !.obj = obj,
                                            !.site = site, !.avail = avail,
                                            !.evaluated = out.evaluated,
                                            !.logged = out.logged, !.ret = out.result]
           /\ failures' = failures + Unsatisfied(out.evaluated, obj)
           /\ UNCHANGED <<keep, cleared>>

Next ==
    \/ Return
    \/ Keep
    \/ Clear
    \/ HasErrors
    \/ ErrorMap
    \/ Error
    \/ Key
    \/ Message
    \/ Required
    \/ Min
    \/ Max
    \/ Range
    \/ MinSize
    \/ MaxSize
    \/ Length
    \/ Match
    \/ Email
    \/ Check

Spec == Init /\ [][Next]_vars

\* Range calls alone, over more limits: below min, above max, min above max.
RangeWide == RangeOver(1..MaxRangeLimit)

NextRange ==
    \/ Return
    \/ Clear
    \/ RangeWide

SpecRange == Init /\ [][NextRange]_vars

\* The setters alone, over two keys, on the results of one rule.
KeyWide == KeyOver(WideKeys)

NextSetters ==
    \/ Return
    \/ Clear
    \/ Min
    \/ KeyWide
    \/ Message

SpecSetters == Init /\ [][NextSetters]_vars

(* ------------------------------ properties ----------------------------- *)

ConvenienceOps == {"Required", "Min", "Max", "Range", "MinSize", "MaxSize",
                   "Length", "Match", "Email"}
ApplyOps == ConvenienceOps \cup {"Check"}

Elems(q) == {q[i] : i \in 1..Len(q)}

\* The indices of the rules of the latest call that obj does not satisfy.
Failing == {i \in 1..Len(last.checks) : ~IsSatisfied(last.checks[i], last.obj)}
FirstFailing == CHOOSE i \in Failing : \A j \in Failing : i <= j

\* C1: a call whose rule is not satisfied (the first such rule of a Check)
\* appends exactly one new error at the end of Errors and returns Ok = false
\* with that error, whose Message is the rule's default message.
C1_FailureAppendsOne ==
    (last.op \in ApplyOps /\ Failing # {}) =>
        /\ ~last.ret.nil /\ ~last.ret.Ok /\ last.ret.Error # NULL
        /\ last.ret.Error \notin DOMAIN last.heap0
        /\ Errors = Append(last.Errors0, last.ret.Error)
        /\ heap[last.ret.Error].Message = DefaultMessage(last.checks[FirstFailing])
        /\ \A id \in DOMAIN last.heap0 : heap[id] = last.heap0[id]

C1_Witness ==
    /\ last.op \in ConvenienceOps /\ Failing # {}
    /\ Len(last.Errors0) = 1 /\ Len(Errors) = 2

\* C2: a convenience call whose rule is satisfied returns Ok = true with a
\* nil Error and leaves Errors, the error records and keep as they were.
C2_SuccessChangesNothing ==
    (last.op \in ConvenienceOps /\ Failing = {}) =>
        /\ last.ret = Result(TRUE, NULL)
        /\ Errors = last.Errors0
        /\ heap = last.heap0
        /\ keep = last.keep0

C2_Witness ==
    /\ last.op \in ConvenienceOps /\ Failing = {}
    /\ Len(Errors) = 1 /\ keep

\* C3: Check evaluates the rules in order up to and including the first one
\* that is not satisfied and no further, returns that rule's result, and
\* lengthens Errors by at most one.
C3_CheckShortCircuits ==
    last.op = "Check" =>
        /\ Len(Errors) <= Len(last.Errors0) + 1
        /\ Failing # {} =>
            /\ last.evaluated = SubSeq(last.checks, 1, FirstFailing)
            /\ ~last.ret.Ok
            /\ Errors = Append(last.Errors0, last.ret.Error)
            /\ heap[last.ret.Error].Message = DefaultMessage(last.checks[FirstFailing])
        /\ Failing = {} => last.evaluated = last.checks

\* Check(x, Required, Min) with x failing both rules.
C3_Witness ==
    /\ last.op = "Check" /\ Len(last.checks) = 2
    /\ Failing = {1, 2}
    /\ last.checks[1].kind = "Required" /\ last.checks[2].kind = "Min"
    /\ Len(Errors) = Len(last.Errors0) + 1

\* C4: the error Error(...) returns is an element of Errors, so HasErrors()
\* is true and ErrorMap() contains it.
C4_ErrorJoinsErrors ==
    last.op = "Error" =>
        /\ last.ret.Error \in Elems(Errors)
        /\ HasErrorsOf(Errors)
        /\ \E k \in DOMAIN ErrorMapOf(Errors, heap) :
               ErrorMapOf(Errors, heap)[k] = last.ret.Error

\* The position in Errors of the earliest error with key k.
EarliestWith(k) ==
    CHOOSE i \in 1..Len(Errors) :
        /\ heap[Errors[i]].Key = k
        /\ \A j \in 1..(i - 1) : heap[Errors[j]].Key # k

\* C5: ErrorMap() has exactly the keys occurring in Errors, maps each to the
\* earliest error of Errors with that key, and changes nothing.
C5_ErrorMapFirstWins ==
    last.op = "ErrorMap" =>
        /\ DOMAIN last.retMap = {heap[e].Key : e \in Elems(Errors)}
        /\ \A k \in DOMAIN last.retMap : last.retMap[k] = Errors[EarliestWith(k)]
        /\ Errors = last.Errors0 /\ heap = last.heap0 /\ keep = last.keep0

\* Two errors A then B share a key and ErrorMap() has run.
C5_Witness ==
    /\ last.op = "ErrorMap" /\ Len(Errors) = 2
    /\ heap[Errors[1]].Key = heap[Errors[2]].Key
    /\ last.retMap[heap[Errors[2]].Key] = Errors[1]

\* C6: Key and Message on a success result change no error record and not
\* Errors, and return the result they were called on, still a success.
C6_SuccessSettersNoOp ==
    (last.op \in {"Key", "Message"} /\ last.r.Ok) =>
        /\ heap = last.heap0
        /\ Errors = last.Errors0
        /\ last.ret = last.r
        /\ last.ret.Ok /\ last.ret.Error = NULL

\* A setter on a success result while an error record exists.
C6_Witness ==
    /\ last.op \in {"Key", "Message"} /\ last.r.Ok
    /\ Len(heap) > 0 /\ Len(Errors) > 0

\* C7: Key(k) on a failing result whose error is in Errors sets the key of
\* that element of Errors to k, and ErrorMap() then has k, mapped to the
\* earliest error of Errors keyed k.
C7_KeyInPlace ==
    (last.op = "Key" /\ last.r.Error \in Elems(Errors)) =>
        /\ heap[last.r.Error].Key = last.key
        /\ last.key \in DOMAIN ErrorMapOf(Errors, heap)
        /\ ErrorMapOf(Errors, heap)[last.key] = Errors[EarliestWith(last.key)]
        /\ \E i \in 1..Len(Errors) : Errors[i] = last.r.Error /\ EarliestWith(last.key) <= i

\* Key(k) has rewritten the default key of an error in Errors.
C7_Witness ==
    /\ last.op = "Key" /\ last.r.Error \in Elems(Errors)
    /\ last.heap0[last.r.Error].Key # last.key
    /\ ErrorMapOf(Errors, heap)[last.key] = last.r.Error

\* C8: after Clear() Errors is empty, HasErrors() is false and ErrorMap() is
\* empty; HasErrors() returns true exactly when Errors is not empty.
C8_ClearEmpties ==
    /\ last.op = "Clear" =>
         /\ Errors = <<>>
         /\ ~HasErrorsOf(Errors)
         /\ ErrorMapOf(Errors, heap) = EmptyMap
    /\ last.op = "HasErrors" => (last.retBool <=> Errors # <<>>)

\* Clear() after two accumulated errors.
C8_Witness ==
    last.op = "Clear" /\ Len(last.Errors0) = 2 /\ Errors = <<>>

\* Check(n, Min{min}, Max{max}) from the state and the call site of the
\* latest call, a Range(n, min, max).
RangeAsCheck ==
    CheckOf(last.Errors0, last.heap0, last.obj,
            <<RuleMin(last.params[1]), RuleMax(last.params[2])>>,
            last.site, last.avail)

C10_CheckWithoutFailure ==
    (last.op = "Check" /\ Failing = {}) =>
        /\ Errors = last.Errors0
        /\ heap = last.heap0
        /\ last.checks = <<>> => last.ret = NilResult
        /\ last.checks # <<>> => last.ret = Result(TRUE, NULL)

\* Check with two satisfied rules on a Validation that holds an error.
C10_Witness ==
    /\ last.op = "Check" /\ Len(last.checks) = 2 /\ Failing = {}
    /\ Len(Errors) = 1 /\ last.ret.Ok

\* C11 as stated: Error(message) without format arguments returns Ok = false
\* with an error whose Message is the message as given and whose Key is
\* empty.
C11_ErrorMessageVerbatim ==
    (last.op = "Error" /\ last.args = <<>>) =>
        /\ ~last.ret.Ok /\ last.ret.Error # NULL
        /\ heap[last.ret.Error].Message = last.msg
        /\ heap[last.ret.Error].Key = <<>>

NoDuplicates(q) == \A i, j \in 1..Len(q) : i # j => q[i] # q[j]

IsPrefix(p, q) == Len(p) <= Len(q) /\ SubSeq(q, 1, Len(p)) = p

C13_ErrorsGrow ==
    [][last'.op # "Clear" => IsPrefix(Errors, Errors')]_vars

\* A Check has appended a second error behind the first.
C13_Witness ==
    /\ last.op = "Check" /\ Len(last.Errors0) = 1
    /\ Len(Errors) = 2 /\ Errors[1] = last.Errors0[1]

\* C14: when a check fails and the runtime supplies caller information, the
\* key of the new error is the name of the function that called the
\* convenience method or Check, "#", and the line of that call.
C14_KeyIsCallSite ==
    (last.op \in ApplyOps /\ Failing # {} /\ last.avail) =>
        /\ last.ret.Error # NULL
        /\ heap[last.ret.Error].Key = last.site.fn \o <<"#">> \o Itoa(last.site.line)

\* A failing Check called from line 12 of app.Save.
C14_Witness ==
    /\ last.op = "Check" /\ Failing # {} /\ last.avail
    /\ Errors # <<>>
    /\ heap[Errors[Len(Errors)]].Key = <<"app.Save", "#", "1", "2">>

\* The latest call had it been made with caller information available.
WithCallerInfo ==
    CheckOf(last.Errors0, last.heap0, last.obj, last.checks, last.site, TRUE)

\* C15: a failing check without caller information still appends its error,
\* with the rule's default message and an empty key, returns Ok = false with
\* that error and logs; but for the key and the log it ends as the same call
\* with caller information does, which logs nothing.
C15_NoCallerInfoStillFails ==
    (last.op \in ApplyOps /\ Failing # {}) =>
        /\ last.logged <=> ~last.avail
        /\ ~last.avail =>
            /\ ~last.ret.Ok /\ last.ret.Error # NULL
            /\ Errors = Append(last.Errors0, last.ret.Error)
            /\ heap[last.ret.Error].Key = <<>>
            /\ heap[last.ret.Error].Message = DefaultMessage(last.checks[FirstFailing])
            /\ last.ret = WithCallerInfo.result
            /\ Errors = WithCallerInfo.Errors
            /\ Len(heap) = Len(WithCallerInfo.heap)
            /\ \A id \in DOMAIN heap :
                   /\ heap[id].Message = WithCallerInfo.heap[id].Message
                   /\ id # last.ret.Error => heap[id] = WithCallerInfo.heap[id]
            /\ WithCallerInfo.heap[last.ret.Error].Key # <<>>

\* Min has failed without caller information, behind an earlier error.
C15_Witness ==
    /\ last.op = "Min" /\ Failing # {} /\ ~last.avail /\ last.logged
    /\ Len(Errors) = 2 /\ heap[Errors[2]].Key = <<>>

\* What call c leaves in Errors and the records when made on errors Errs and
\* records hp, worked out from the call's arguments alone.
Outcome(Errs, hp, c) ==
    CASE c.op \in ApplyOps ->
             LET out == CheckOf(Errs, hp, c.obj, c.checks, c.site, c.avail)
             IN [Errors |-> out.Errors, heap |-> out.heap]
      [] c.op = "Clear" -> [Errors |-> <<>>, heap |-> hp]
      [] c.op = "Error" -> [Errors |-> Errs, heap |-> ErrorOf(Errs, hp, c.msg, c.args).heap]
      [] c.op = "Key" -> [Errors |-> Errs, heap |-> ResultKey(hp, c.r, c.key)]
      [] c.op = "Message" -> [Errors |-> Errs, heap |-> ResultMessage(hp, c.r, c.msg, c.args)]
      [] OTHER -> [Errors |-> Errs, heap |-> hp]

\* C16: keep is false on a fresh Validation; only Keep changes it, and only
\* to true, so it stays true through every later operation, Clear included;
\* Keep leaves Errors and the error records as they were; and what any
\* operation does to Errors and the records is the same whatever keep is.
C16_KeepIsSticky ==
    /\ ~keep
    /\ [][/\ keep => keep'
          /\ keep' # keep => last'.op = "Keep"
          /\ last'.op = "Keep" => (keep' /\ Errors' = Errors /\ heap' = heap)
          /\ last'.op # "idle" =>
                 /\ last'.keep0 = keep
                 /\ [Errors |-> Errors', heap |-> heap'] = Outcome(Errors, heap, last')]_vars

\* Clear has emptied a list with errors after Keep, and keep is still set.
C16_Witness ==
    /\ last.op = "Clear" /\ last.keep0 /\ keep
    /\ last.Errors0 # <<>> /\ Errors = <<>>

\* C17: Key and Message on a failing result leave Errors, every other record
\* and the other field of the result's record as they were, and return the
\* same failing result; the field they set holds what the latest call gave,
\* whatever it held before.
C17_SettersChangeOneField ==
    (last.op \in {"Key", "Message"} /\ last.r.Error # NULL) =>
        LET id == last.r.Error
        IN /\ Errors = last.Errors0
           /\ Len(heap) = Len(last.heap0)
           /\ \A j \in DOMAIN heap : j # id => heap[j] = last.heap0[j]
           /\ last.ret = last.r /\ ~last.ret.Ok
           /\ last.op = "Key" =>
                  /\ heap[id].Key = last.key
                  /\ heap[id].Message = last.heap0[id].Message
           /\ last.op = "Message" =>
                  /\ heap[id].Key = last.heap0[id].Key
                  /\ heap[id].Message =
                         IF last.args = <<>> THEN last.msg
                         ELSE Sprintf(last.msg, <<SliceVal(last.args)>>)

\* Key("age") on the first of two errors, which had the key "name" from an
\* earlier Key call.
C17_Witness ==
    /\ last.op = "Key" /\ last.r.Error = 1 /\ Errors = <<1, 2>>
    /\ last.heap0[1].Key = <<"name">> /\ last.key = <<"age">>
    /\ heap[1].Key = <<"age">>

\* C18: Errors holds only errors allocated after the latest Clear, and Key
\* or Message on a failing result from before that Clear leaves Errors and
\* every error in it as they were.
C18_StaleHandle ==
    /\ \A i \in 1..Len(Errors) : Errors[i] > cleared
    /\ (last.op \in {"Key", "Message"} /\ last.r.Error # NULL
            /\ last.r.Error <= cleared) =>
           /\ last.r.Error \notin Elems(Errors)
           /\ Errors = last.Errors0
           /\ \A i \in 1..Len(Errors) : heap[Errors[i]] = last.heap0[Errors[i]]

\* Key on the result of a check that failed before Clear, while Errors holds
\* an error of a check that failed after it.
C18_Witness ==
    /\ last.op = "Key" /\ last.r.Error = 1 /\ cleared = 1
    /\ Errors = <<2>> /\ heap[1].Key = last.key /\ heap[2].Key # last.key

====
